---- MODULE Spec2Model ----
(***************************************************************************)
(* A model of the Judicio backend, src/server.js.  The file holds two      *)
(* builds of the server one after the other: lines 1-230 (build 1) and     *)
(* lines 232-503 (build 2, "ML + GROQ hybrid").  A run of the model is a   *)
(* run of one build, chosen in Init and named by the variable `variant`.   *)
(*                                                                         *)
(* Strings are sequences of tokens.  A token is either one of the single   *)
(* characters the code's regular expressions single out (hyphen, en dash,  *)
(* em dash, colon, space, newline, full stop) or a maximal run of other    *)
(* characters (a word).  The module is ASCII, so the two dashes are        *)
(* written "<U+2013>" and "<U+2014>", and the warning sign that starts     *)
(* some of the code's fixed messages is left out of them.                  *)
(***************************************************************************)
EXTENDS Integers, Sequences, FiniteSets, TLC

VARIABLES
    variant,     \* the build that runs: 1 or 2
    req,         \* req[i]: what request i carries (endpoint, upload, body)
    pc,          \* pc[i]: where request i's handler is suspended
    disk,        \* uploads/: path -> id of the upload stored there, 0 if none
    text,        \* text[i]: the handler's local `text`
    clauses,     \* clauses[i]: the handler's local `classifiedClauses`
    res,         \* res[i]: the responses the handler has emitted, in order
    ops,         \* ops[i]: the file, library, subprocess and network calls made
    completion,  \* pure-function runs: the completion handed to the parser
    parsed       \* pure-function runs: <<>> before, <<result>> after parsing

vars == <<variant, req, pc, disk, text, clauses, res, ops,
          completion, parsed>>

-----------------------------------------------------------------------------
(* Tokens *)

HYPHEN == "-"
ENDASH == "<U+2013>"
EMDASH == "<U+2014>"
COLON  == ":"
SP     == " "
NL     == "\n"
DOT    == "."

\* String.prototype.trim removes white space and line terminators.
IsSpace(t) == t \in {SP, NL}

RECURSIVE TrimStart(_)
TrimStart(s) ==
    IF s = <<>> THEN <<>>
    ELSE IF IsSpace(Head(s)) THEN TrimStart(Tail(s)) ELSE s

RECURSIVE TrimEnd(_)
TrimEnd(s) ==
    IF s = <<>> THEN <<>>
    ELSE IF IsSpace(s[Len(s)]) THEN TrimEnd(SubSeq(s, 1, Len(s) - 1)) ELSE s

Trim(s) == TrimEnd(TrimStart(s))

\* s.split(sep) for a separator that matches exactly one token of `seps`:
\* n separators give n + 1 pieces, and the empty string gives one empty piece.
RECURSIVE Split(_, _)
Split(s, seps) ==
    IF \A k \in 1..Len(s) : s[k] \notin seps THEN <<s>>
    ELSE LET k == CHOOSE j \in 1..Len(s) :
                      /\ s[j] \in seps
                      /\ \A h \in 1..(j - 1) : s[h] \notin seps
         IN  <<SubSeq(s, 1, k - 1)>> \o Split(SubSeq(s, k + 1, Len(s)), seps)

\* pieces.join(sep), sep one token.
RECURSIVE Join(_, _)
Join(pieces, sep) ==
    IF pieces = <<>> THEN <<>>
    ELSE IF Len(pieces) = 1 THEN pieces[1]
    ELSE pieces[1] \o <<sep>> \o Join(Tail(pieces), sep)

\* A JavaScript string is falsy exactly when it is empty.
Truthy(s) == s # <<>>

-----------------------------------------------------------------------------
(* The completion service's answer *)

\* A completion is [choices |-> c]: c is <<>> (no choices) or <<content>>.
NoChoices == [choices |-> <<>>]
Reply(content) == [choices |-> <<content>>]

\* completion?.choices?.[0]?.message?.content || fallback   (build 1)
ContentOr(c, fallback) ==
    IF c.choices # <<>> /\ Truthy(c.choices[1]) THEN c.choices[1] ELSE fallback

\* completion.choices[0].message.content throws a TypeError when there is no
\* choice (build 2): Throws says when, Content gives the value otherwise.
ContentThrows(c) == c.choices = <<>>
Content(c) == c.choices[1]

-----------------------------------------------------------------------------
(* Labels: the regular expressions  Label[:\-]  of both builds *)

\* The tokens that end with the letters of `label` exactly as written; a
\* word that merely ends with them counts, since the expressions are not
\* anchored on the left.
Exact(label) ==
    {label} \cup (IF label = "Outcome" THEN {"PredictedOutcome"} ELSE {})

\* The same without regard to case (the flag i).
AnyCase(label) ==
    Exact(label) \cup
    (CASE label = "Outcome"    -> {"outcome", "OUTCOME"}
       [] label = "Reasoning"  -> {"reasoning"}
       [] label = "Confidence" -> {"confidence"}
       [] label = "Argument"   -> {"argument"}
       [] label = "Analysis"   -> {"analysis"}
       [] label = "Strategy"   -> {"strategy"}
       [] OTHER                -> {})

Spelled(label, ci) == IF ci THEN AnyCase(label) ELSE Exact(label)

\* Label[:\-] matches at token k; with hyphen = FALSE only Label: matches
\* (the string separators "Argument:" of build 2).
LabelAt(s, k, label, ci, hyphen) ==
    /\ k >= 1
    /\ k < Len(s)
    /\ s[k] \in Spelled(label, ci)
    /\ s[k + 1] \in (IF hyphen THEN {COLON, HYPHEN} ELSE {COLON})

\* The leftmost match at or after token `from`; 0 when there is none.
FirstLabel(s, from, label, ci, hyphen) ==
    IF \E k \in from..Len(s) : LabelAt(s, k, label, ci, hyphen)
    THEN CHOOSE k \in from..Len(s) :
             /\ LabelAt(s, k, label, ci, hyphen)
             /\ \A h \in from..(k - 1) : ~LabelAt(s, h, label, ci, hyphen)
    ELSE 0

\* \s* from token `from`: the first token at or after it that is not space.
RECURSIVE SkipSpace(_, _)
SkipSpace(s, from) ==
    IF from <= Len(s) /\ IsSpace(s[from]) THEN SkipSpace(s, from + 1) ELSE from

\* (.*) from token `from`: up to, not including, the next newline.
RECURSIVE DotStar(_, _)
DotStar(s, from) ==
    IF from > Len(s) \/ s[from] = NL THEN <<>>
    ELSE <<s[from]>> \o DotStar(s, from + 1)

\* text.match(/Label[:\-]\s*(.*)/)?.[1]: <<>> when there is no match (null),
\* <<capture>> otherwise.
MatchLine(s, label, ci) ==
    LET k == FirstLabel(s, 1, label, ci, TRUE)
    IN  IF k = 0 THEN <<>> ELSE <<DotStar(s, SkipSpace(s, k + 2))>>

\* text.match(/Label[:\-]\s*([\s\S]*?)(?:Stop[:\-]|$)/i)?.[1]: the lazy
\* capture ends at the first Stop[:\-] after the white space, or at the end.
MatchUntil(s, label, stop) ==
    LET k == FirstLabel(s, 1, label, TRUE, TRUE)
    IN  IF k = 0 THEN <<>>
        ELSE LET from == SkipSpace(s, k + 2)
                 e    == FirstLabel(s, from, stop, TRUE, TRUE)
             IN  <<SubSeq(s, from, IF e = 0 THEN Len(s) ELSE e - 1)>>

\* text.match(/Label[:\-]\s*([\s\S]*)/i)?.[1]: the capture runs to the end.
MatchRest(s, label) ==
    LET k == FirstLabel(s, 1, label, TRUE, TRUE)
    IN  IF k = 0 THEN <<>> ELSE <<SubSeq(s, SkipSpace(s, k + 2), Len(s))>>

\* s.split(/Label[:\-]/i) (hyphen, ci) and s.split("Label:") (neither).
RECURSIVE SplitLabel(_, _, _, _)
SplitLabel(s, label, ci, hyphen) ==
    LET k == FirstLabel(s, 1, label, ci, hyphen)
    IN  IF k = 0 THEN <<s>>
        ELSE <<SubSeq(s, 1, k - 1)>>
             \o SplitLabel(SubSeq(s, k + 2, Len(s)), label, ci, hyphen)

-----------------------------------------------------------------------------
(* /predict-outcome: field extraction *)

NO_OUTCOME    == <<"No clear outcome.">>
NO_REASONING  == <<"No reasoning found.">>
NO_CONFIDENCE == <<"Unknown">>

\* m?.[1]?.trim() || fallback
TrimOr(m, fallback) ==
    IF m # <<>> /\ Truthy(Trim(m[1])) THEN Trim(m[1]) ELSE fallback

\* m?.[1] || ""
CaptureOrEmpty(m) == IF m # <<>> THEN m[1] ELSE <<>>

\* Build 1: the fields of the reply, fallbacks for what is missing.
PredictFieldsV1(c) ==
    LET t == ContentOr(c, <<>>)
    IN  [outcome    |-> TrimOr(MatchLine(t, "Outcome", TRUE), NO_OUTCOME),
         reasoning  |-> TrimOr(MatchUntil(t, "Reasoning", "Confidence"),
                               NO_REASONING),
         confidence |-> TrimOr(MatchLine(t, "Confidence", TRUE),
                               NO_CONFIDENCE)]

\* Build 2: case-sensitive, one line per field, the empty string for what is
\* missing.  Only used when the completion has a choice.
PredictFieldsV2(c) ==
    LET t == Trim(Content(c))
    IN  [outcome    |-> CaptureOrEmpty(MatchLine(t, "Outcome", FALSE)),
         reasoning  |-> CaptureOrEmpty(MatchLine(t, "Reasoning", FALSE)),
         confidence |-> CaptureOrEmpty(MatchLine(t, "Confidence", FALSE))]

SERVER_ERROR == <<"Server error">>

\* Build 2's catch: what the handler answers when the completion has no
\* choice (or the call threw).
PredictCatchV2 ==
    [outcome |-> SERVER_ERROR, reasoning |-> <<>>, confidence |-> <<>>]

-----------------------------------------------------------------------------
(* /generate-timeline: line parsing *)

SepsV1 == {HYPHEN, ENDASH, COLON}
SepsV2 == {HYPHEN, ENDASH, EMDASH, COLON}

NO_TIMELINE == <<"No", SP, "timeline", SP, "generated", DOT>>

NonBlank(l) == Truthy(Trim(l))

\* Build 1: const [date, ...rest] = line.split(/[-<U+2013>:]/)
TimelineEntryV1(line) ==
    LET p == Split(line, SepsV1)
    IN  [date |-> Trim(p[1]), event |-> Trim(Join(Tail(p), SP))]

TimelineV1(c) ==
    LET t     == ContentOr(c, NO_TIMELINE)
        lines == SelectSeq(Split(t, {NL}), NonBlank)
    IN  [k \in 1..Len(lines) |-> TimelineEntryV1(lines[k])]

\* Build 2: const [date, event] = l.split(/[-<U+2013><U+2014>:]/); an event
\* that is undefined is left out of the JSON the handler sends.
TimelineEntryV2(l) ==
    LET p == Split(l, SepsV2)
    IN  IF Len(p) >= 2 THEN [date |-> Trim(p[1]), event |-> Trim(p[2])]
        ELSE [date |-> Trim(p[1])]

TimelineV2(c) ==
    LET lines == Split(Trim(Content(c)), {NL})
    IN  [k \in 1..Len(lines) |-> TimelineEntryV2(lines[k])]

TIMELINE_FAILED == <<"Timeline generation failed">>
TIMELINE_ERROR  == <<"Could not generate timeline.">>
ERROR_DATE      == <<"Error">>

TimelineCatchV1 == <<[date |-> ERROR_DATE, event |-> TIMELINE_ERROR]>>
TimelineCatchV2 == <<[date |-> ERROR_DATE, event |-> TIMELINE_FAILED]>>

-----------------------------------------------------------------------------
(* /generate-arguments: block parsing *)

UNTITLED    == <<"Untitled Argument">>
NO_ANALYSIS == <<"No analysis provided.">>
NO_STRATEGY == <<"No strategy provided.">>

\* Build 1: one block of response.split(/Argument[:\-]/i).
ArgumentBlockV1(block) ==
    LET analysisMatch == MatchUntil(block, "Analysis", "Strategy")
        strategyMatch == MatchRest(block, "Strategy")
        title         == Trim(Split(block, {NL})[1])
    IN  [argument |-> IF Truthy(title) THEN title ELSE UNTITLED,
         analysis |-> IF analysisMatch # <<>> THEN Trim(analysisMatch[1])
                      ELSE NO_ANALYSIS,
         response |-> IF strategyMatch # <<>> THEN Trim(strategyMatch[1])
                      ELSE NO_STRATEGY]

ArgumentsV1(c) ==
    LET response == ContentOr(c, <<>>)
        blocks   == SelectSeq(SplitLabel(response, "Argument", TRUE, TRUE),
                              NonBlank)
    IN  [k \in 1..Len(blocks) |-> ArgumentBlockV1(blocks[k])]

\* Build 2: one block of content.split("Argument:").slice(1); a field that
\* is undefined is left out of the JSON the handler sends.
ArgumentBlockV2(b) ==
    LET byAnalysis == SplitLabel(b, "Analysis", FALSE, FALSE)
        byStrategy == SplitLabel(b, "Strategy", FALSE, FALSE)
    IN  [argument |-> Trim(byAnalysis[1])]
        @@ (IF Len(byAnalysis) >= 2
            THEN [analysis |->
                     Trim(SplitLabel(byAnalysis[2], "Strategy", FALSE, FALSE)[1])]
            ELSE <<>>)
        @@ (IF Len(byStrategy) >= 2
            THEN [strategy |-> Trim(byStrategy[2])]
            ELSE <<>>)

ArgumentsV2(c) ==
    LET blocks == Tail(SplitLabel(Content(c), "Argument", FALSE, FALSE))
    IN  [k \in 1..Len(blocks) |-> ArgumentBlockV2(blocks[k])]

ARGS_DOWN        == <<"Could not connect to Judicio server.">>
ARGS_UNREACHABLE == <<"Server unreachable">>

ArgumentsCatchV1 == <<[argument |-> ARGS_DOWN]>>
ArgumentsCatchV2 == <<[argument |-> ARGS_UNREACHABLE]>>

-----------------------------------------------------------------------------
(* Uploads and the classifier subprocess *)

\* String.prototype.toLowerCase on the tokens file names are made of.
ToLowerCase(t) ==
    CASE t = "PDF"  -> "pdf"
      [] t = "DOCX" -> "docx"
      [] t = "TXT"  -> "txt"
      [] OTHER      -> t

\* req.file.originalname.split(".").pop().toLowerCase()
Ext(originalname) ==
    LET parts == Split(originalname, {DOT})
        last  == parts[Len(parts)]
    IN  [k \in 1..Len(last) |-> ToLowerCase(last[k])]

\* A store that names every upload alike.
MulterPathShared(i) == 1

\* multer({ dest: "uploads/" }) stores each upload under a name of its own
\* (16 random bytes): request i's file is at path i.
MulterPath(i) == i

\* fs.unlinkSync on a file that exists.
UnlinkSync(d, p) == [d EXCEPT ![p] = 0]

\* JSON.parse of the subprocess's output: <<>> for a SyntaxError, <<value>>
\* otherwise, the value named by its kind.
JsonParse(output) ==
    CASE output = "null"                      -> <<"null">>
      [] output = "{}"                        -> <<"object">>
      [] output = "[]"                        -> <<"array">>
      [] output = "{\"clauses\":[]}"          -> <<"clauses-empty-list">>
      [] output = "{\"clauses\":[\"c1\"]}"    -> <<"clauses-list">>
      [] output = "{\"clauses\":\"x\"}"       -> <<"clauses-string">>
      [] OTHER                                -> <<>>

\* runMLModel: what the promise resolves with once the subprocess closes.
RunMLModel(output) ==
    IF JsonParse(output) # <<>> THEN JsonParse(output)[1]
    ELSE "clauses-empty-list"

\* mlResult.clauses throws a TypeError exactly when mlResult is null.
ClausesThrows(mlResult) == mlResult = "null"

\* mlResult.clauses || []   as JSON text
ClassifiedClauses(mlResult) ==
    CASE mlResult = "clauses-list"   -> "[\"c1\"]"
      [] mlResult = "clauses-string" -> "\"x\""
      [] OTHER                       -> "[]"

-----------------------------------------------------------------------------
(* Requests *)

NReq == 2
Reqs == 1..NReq
Paths == {MulterPath(i) : i \in Reqs}

NoFile == <<>>     \* the request carries no upload: req.file is undefined
NoReq  == [endpoint |-> "none", file |-> NoFile, doc |-> "none",
           path |-> 0, body |-> <<>>]

DocText == <<"document", SP, "text">>
Word    == <<"v">>

\* The uploads a request may carry: the original name, and whether the
\* extraction library accepts the content ("ok") or throws on it ("corrupt").
Uploads ==
    {[file |-> <<"a", DOT, "pdf">>,  doc |-> "ok"],
     [file |-> <<"a", DOT, "pdf">>,  doc |-> "corrupt"],
     [file |-> <<"b", DOT, "DOCX">>, doc |-> "ok"],
     [file |-> <<"b", DOT, "DOCX">>, doc |-> "corrupt"],
     [file |-> <<"c", DOT, "txt">>,  doc |-> "ok"],
     [file |-> <<"d", DOT, "exe">>,  doc |-> "ok"],
     [file |-> NoFile,               doc |-> "none"]}

ChatBodies ==
    {[prompt |-> Word, message |-> <<>>],
     [prompt |-> <<>>, message |-> Word],
     [prompt |-> <<>>, message |-> <<>>]}

PredictBodies ==
    {[caseType |-> Word, jurisdiction |-> Word, summary |-> Word],
     [caseType |-> Word, jurisdiction |-> Word, summary |-> <<>>],
     [caseType |-> <<>>, jurisdiction |-> <<>>, summary |-> <<>>]}

\* Request i as it reaches its handler.
Requests(i) ==
    {[endpoint |-> "chat", file |-> NoFile, doc |-> "none", path |-> 0,
      body |-> b] : b \in ChatBodies}
    \cup
    {[endpoint |-> "predict", file |-> NoFile, doc |-> "none", path |-> 0,
      body |-> b] : b \in PredictBodies}
    \cup
    {[endpoint |-> e, file |-> NoFile, doc |-> "none", path |-> 0,
      body |-> <<>>] : e \in {"timeline", "arguments"}}
    \cup
    {[endpoint |-> "analyze", file |-> u.file, doc |-> u.doc,
      path |-> IF u.file = NoFile THEN 0 ELSE MulterPath(i),
      body |-> <<>>] : u \in Uploads}

\* What the completion service may answer, per endpoint.
Replies(e) ==
    CASE e = "predict" ->
           {<<"Outcome", COLON, SP, "Win", NL, "Reasoning", COLON, SP, "r",
              NL, "Confidence", COLON, SP, "80%">>}
      [] e = "timeline" ->
           {<<"2020", HYPHEN, "01", HYPHEN, "15", SP, HYPHEN, SP, "Signed">>}
      [] e = "arguments" ->
           {<<"Argument", COLON, SP, "A", NL, "Analysis", COLON, SP, "a1",
              NL, "Strategy", COLON, SP, "s1">>}
      [] OTHER -> {<<SP, "answer", NL>>}

Completions(e) == {NoChoices} \cup {Reply(r) : r \in Replies(e)}

\* The errors the handlers catch, by their message.
GroqError == <<"Connection error.">>
TypeError == <<"Cannot read properties of undefined">>
ENOENT    == <<"ENOENT: no such file or directory">>
BadFile   == <<"extraction failed">>

-----------------------------------------------------------------------------
(* Fixed messages and statuses *)

OK          == 200
BAD_REQUEST == 400
SERVER_FAIL == 500

CHAT_DEFAULT     == <<"Explain this legal concept simply.">>
CHAT_NO_RESPONSE == <<"No response from Judicio server.">>
CHAT_DOWN_V1     == <<"Could not connect to Judicio server.">>
CHAT_DOWN_V2     == <<"Could not connect to server.">>
UNSUPPORTED      == <<"Unsupported file type.">>
NO_SUMMARY       == <<"No summary generated.">>
ANALYZE_DOWN     == <<"Could not connect to Judicio server.">>
UNABLE           == <<"Unable to analyze document.">>
AUTO_DETECTED    == <<"Auto-Detected">>
MISSING_FIELDS   == <<"Missing required fields.">>
PREDICT_DOWN     == <<"Could not connect to Judicio server.">>

\* What the awaited completion call may do: resolve with a completion, or
\* reject with an error.
Rejected == [choices |-> <<>>, error |-> GroqError]
Threw(c) == "error" \in DOMAIN c
Outcomes(e) == Completions(e) \cup {Rejected}

-----------------------------------------------------------------------------
(* Steps shared by the handlers *)

Op(name, p, got) == [op |-> name, path |-> p, got |-> got]

Log(i, entries) == ops' = [ops EXCEPT ![i] = @ \o entries]

\* res.status(status).json(body): the handler's last step.
Respond(i, status, body) ==
    /\ res' = [res EXCEPT ![i] = Append(@, [status |-> status, body |-> body])]
    /\ pc' = [pc EXCEPT ![i] = "done"]

\* groq.chat.completions.create(...) is called; the handler awaits it.
CallGroq(i, before) ==
    /\ Log(i, before \o <<Op("groq.create", 0, 0)>>)
    /\ pc' = [pc EXCEPT ![i] = "groq"]
    /\ UNCHANGED res

\* The awaited call has settled: one more entry when it rejected.
Settled(i, c) ==
    Log(i, IF Threw(c) THEN <<Op("groq.throw", 0, 0)>> ELSE <<>>)

Pure == UNCHANGED <<completion, parsed>>

\* A request reaches the server; multer stores its upload before the handler
\* runs.
Arrive(i) ==
    /\ pc[i] = "idle"
    /\ \E r \in Requests(i) :
          /\ req' = [req EXCEPT ![i] = r]
          /\ disk' = IF r.path = 0 THEN disk
                     ELSE [disk EXCEPT ![r.path] = i]
    /\ pc' = [pc EXCEPT ![i] = "handler"]
    /\ UNCHANGED <<variant, text, clauses, res, ops>>
    /\ Pure

At(i, v, e, where) ==
    /\ variant = v
    /\ req[i].endpoint = e
    /\ pc[i] = where

-----------------------------------------------------------------------------
(* Build 1, lines 1-230 *)

\* A catch clause that only logs: the request is never answered.
Catch1Silent(i, e, err) ==
    /\ pc' = [pc EXCEPT ![i] = "done"]
    /\ UNCHANGED res

\* The body of each catch clause of build 1.
CatchBody1(e, err) ==
    CASE e = "chat"      -> [text |-> CHAT_DOWN_V1, error |-> err]
      [] e = "analyze"   -> [summary |-> ANALYZE_DOWN, error |-> err]
      [] e = "predict"   -> [outcome |-> PREDICT_DOWN, reasoning |-> <<>>,
                             confidence |-> <<>>]
      [] e = "timeline"  -> TimelineCatchV1
      [] e = "arguments" -> ArgumentsCatchV1

Catch1(i, e, err) == Respond(i, SERVER_FAIL, CatchBody1(e, err))

\* /chat up to the await.  The test of !prompt never succeeds: the default
\* is not empty.
Chat1(i) ==
    /\ At(i, 1, "chat", "handler")
    /\ LET b      == req[i].body
           prompt == IF Truthy(b.prompt) THEN b.prompt
                     ELSE IF Truthy(b.message) THEN b.message
                     ELSE CHAT_DEFAULT
       IN  IF ~Truthy(prompt)
           THEN /\ Respond(i, BAD_REQUEST,
                           [text |-> <<"Missing prompt input.">>])
                /\ UNCHANGED ops
           ELSE CallGroq(i, <<>>)
    /\ UNCHANGED <<variant, req, disk, text, clauses>>
    /\ Pure

\* completion?.choices?.[0]?.message?.content?.trim() || fallback
TrimmedOr(c, fallback) ==
    IF Truthy(Trim(ContentOr(c, <<>>))) THEN Trim(ContentOr(c, <<>>))
    ELSE fallback

\* The completion call made first, the removal left for later.
CleanUp1CallFirst(i, t, before) ==
    /\ text' = [text EXCEPT ![i] = t]
    /\ CallGroq(i, before)
    /\ UNCHANGED disk

\* lines 79-82: the file is removed, then the completion call is made.
CleanUp1(i, t, before) ==
    LET p == req[i].path
    IN  /\ text' = [text EXCEPT ![i] = t]
        /\ IF disk[p] = 0
           THEN /\ Log(i, before \o <<Op("unlinkSync", p, 0)>>)
                /\ Catch1(i, "analyze", ENOENT)
                /\ UNCHANGED disk
           ELSE /\ disk' = UnlinkSync(disk, p)
                /\ CallGroq(i, before \o <<Op("unlinkSync", p, disk[p])>>)

\* /api/analyze-document up to its first await (or to its end).
Analyze1(i) ==
    /\ At(i, 1, "analyze", "handler")
    /\ IF req[i].file = NoFile
       THEN /\ Catch1(i, "analyze", TypeError)
            /\ UNCHANGED <<disk, text, ops>>
       ELSE LET p   == req[i].path
                ext == Ext(req[i].file)
                rd  == Op("readFileSync", p, disk[p])
            IN  CASE ext = <<"pdf">> ->
                       /\ Log(i, <<rd>>)
                       /\ IF disk[p] = 0
                          THEN Catch1(i, "analyze", ENOENT)
                          ELSE /\ pc' = [pc EXCEPT ![i] = "pdfParse"]
                               /\ UNCHANGED res
                       /\ UNCHANGED <<disk, text>>
                  [] ext = <<"docx">> ->
                       /\ pc' = [pc EXCEPT ![i] = "mammoth"]
                       /\ UNCHANGED <<disk, text, ops, res>>
                  [] ext = <<"txt">> ->
                       IF disk[p] = 0
                       THEN /\ Log(i, <<rd>>)
                            /\ Catch1(i, "analyze", ENOENT)
                            /\ UNCHANGED <<disk, text>>
                       ELSE CleanUp1(i, DocText, <<rd>>)
                  [] OTHER ->
                       /\ Log(i, <<Op("unlinkSync", p, disk[p])>>)
                       /\ IF disk[p] = 0
                          THEN /\ Catch1(i, "analyze", ENOENT)
                               /\ UNCHANGED disk
                          ELSE /\ disk' = UnlinkSync(disk, p)
                               /\ Respond(i, OK, [summary |-> UNSUPPORTED])
                       /\ UNCHANGED text
    /\ UNCHANGED <<variant, req, clauses>>
    /\ Pure

\* await pdfParse(dataBuffer) settles.
PdfParsed1(i) ==
    /\ At(i, 1, "analyze", "pdfParse")
    /\ IF req[i].doc = "corrupt"
       THEN /\ Log(i, <<Op("pdfParse", 0, 0)>>)
            /\ Catch1(i, "analyze", BadFile)
            /\ UNCHANGED <<disk, text>>
       ELSE CleanUp1(i, DocText, <<Op("pdfParse", 0, 1)>>)
    /\ UNCHANGED <<variant, req, clauses>>
    /\ Pure

\* await mammoth.extractRawText({ path }) settles: mammoth has read the file.
Mammoth1(i) ==
    /\ At(i, 1, "analyze", "mammoth")
    /\ LET p  == req[i].path
           rd == Op("mammoth", p, disk[p])
       IN  IF disk[p] = 0 \/ req[i].doc = "corrupt"
           THEN /\ Log(i, <<rd>>)
                /\ Catch1(i, "analyze", IF disk[p] = 0 THEN ENOENT ELSE BadFile)
                /\ UNCHANGED <<disk, text>>
           ELSE CleanUp1(i, DocText, <<rd>>)
    /\ UNCHANGED <<variant, req, clauses>>
    /\ Pure

\* /predict-outcome up to the await: the three fields are required.
Predict1(i) ==
    /\ At(i, 1, "predict", "handler")
    /\ LET b == req[i].body
       IN  IF ~Truthy(b.caseType) \/ ~Truthy(b.jurisdiction)
              \/ ~Truthy(b.summary)
           THEN /\ Respond(i, BAD_REQUEST,
                           [outcome |-> MISSING_FIELDS, reasoning |-> <<>>,
                            confidence |-> <<>>])
                /\ UNCHANGED ops
           ELSE CallGroq(i, <<>>)
    /\ UNCHANGED <<variant, req, disk, text, clauses>>
    /\ Pure

\* /generate-timeline and /generate-arguments up to the await.
Timeline1(i) ==
    /\ At(i, 1, "timeline", "handler")
    /\ CallGroq(i, <<>>)
    /\ UNCHANGED <<variant, req, disk, text, clauses>>
    /\ Pure

Arguments1(i) ==
    /\ At(i, 1, "arguments", "handler")
    /\ CallGroq(i, <<>>)
    /\ UNCHANGED <<variant, req, disk, text, clauses>>
    /\ Pure

\* What each handler of build 1 sends once the completion call resolved.
Body1(e, c) ==
    CASE e = "chat"      -> [text |-> TrimmedOr(c, CHAT_NO_RESPONSE)]
      [] e = "analyze"   -> [language |-> AUTO_DETECTED,
                             summary  |-> TrimmedOr(c, NO_SUMMARY)]
      [] e = "predict"   -> PredictFieldsV1(c)
      [] e = "timeline"  -> TimelineV1(c)
      [] e = "arguments" -> ArgumentsV1(c)

\* The awaited completion call settles, in any handler of build 1.
Groq1(i) ==
    /\ variant = 1
    /\ pc[i] = "groq"
    /\ \E c \in Outcomes(req[i].endpoint) :
          /\ Settled(i, c)
          /\ IF Threw(c) THEN Catch1(i, req[i].endpoint, c.error)
             ELSE Respond(i, OK, Body1(req[i].endpoint, c))
    /\ UNCHANGED <<variant, req, disk, text, clauses>>
    /\ Pure

-----------------------------------------------------------------------------
(* Build 2, lines 232-503 *)

\* The body of each catch clause of build 2.
CatchBody2(e) ==
    CASE e = "chat"      -> [text |-> CHAT_DOWN_V2]
      [] e = "analyze"   -> [summary |-> UNABLE, ml_clauses |-> "[]"]
      [] e = "predict"   -> PredictCatchV2
      [] e = "timeline"  -> TimelineCatchV2
      [] e = "arguments" -> ArgumentsCatchV2

\* Only /api/analyze-document sets the status in its catch clause.
Catch2(i, e) ==
    Respond(i, IF e = "analyze" THEN SERVER_FAIL ELSE OK, CatchBody2(e))

\* /chat, /predict-outcome, /generate-timeline and /generate-arguments up to
\* the await: no field is checked.
Start2(i) ==
    /\ variant = 2
    /\ pc[i] = "handler"
    /\ req[i].endpoint \in {"chat", "predict", "timeline", "arguments"}
    /\ CallGroq(i, <<>>)
    /\ UNCHANGED <<variant, req, disk, text, clauses>>
    /\ Pure

\* lines 335-341: the file is removed, then the classifier is started.
CleanUp2(i, t, before) ==
    LET p == req[i].path
    IN  /\ text' = [text EXCEPT ![i] = t]
        /\ IF disk[p] = 0
           THEN /\ Log(i, before \o <<Op("unlinkSync", p, 0)>>)
                /\ Catch2(i, "analyze")
                /\ UNCHANGED disk
           ELSE /\ disk' = UnlinkSync(disk, p)
                /\ Log(i, before \o <<Op("unlinkSync", p, disk[p]),
                                      Op("spawn", 0, 0)>>)
                /\ pc' = [pc EXCEPT ![i] = "ml"]
                /\ UNCHANGED res

\* /api/analyze-document up to its first await: any other extension leaves
\* text empty and goes on.
Analyze2(i) ==
    /\ At(i, 2, "analyze", "handler")
    /\ IF req[i].file = NoFile
       THEN /\ Catch2(i, "analyze")
            /\ UNCHANGED <<disk, text, ops>>
       ELSE LET p   == req[i].path
                ext == Ext(req[i].file)
                rd  == Op("readFileSync", p, disk[p])
            IN  CASE ext = <<"pdf">> ->
                       /\ Log(i, <<rd>>)
                       /\ IF disk[p] = 0
                          THEN Catch2(i, "analyze")
                          ELSE /\ pc' = [pc EXCEPT ![i] = "pdfParse"]
                               /\ UNCHANGED res
                       /\ UNCHANGED <<disk, text>>
                  [] ext = <<"docx">> ->
                       /\ pc' = [pc EXCEPT ![i] = "mammoth"]
                       /\ UNCHANGED <<disk, text, ops, res>>
                  [] ext = <<"txt">> ->
                       IF disk[p] = 0
                       THEN /\ Log(i, <<rd>>)
                            /\ Catch2(i, "analyze")
                            /\ UNCHANGED <<disk, text>>
                       ELSE CleanUp2(i, DocText, <<rd>>)
                  [] OTHER -> CleanUp2(i, <<>>, <<>>)
    /\ UNCHANGED <<variant, req, clauses>>
    /\ Pure

PdfParsed2(i) ==
    /\ At(i, 2, "analyze", "pdfParse")
    /\ IF req[i].doc = "corrupt"
       THEN /\ Log(i, <<Op("pdfParse", 0, 0)>>)
            /\ Catch2(i, "analyze")
            /\ UNCHANGED <<disk, text>>
       ELSE CleanUp2(i, DocText, <<Op("pdfParse", 0, 1)>>)
    /\ UNCHANGED <<variant, req, clauses>>
    /\ Pure

Mammoth2(i) ==
    /\ At(i, 2, "analyze", "mammoth")
    /\ LET p  == req[i].path
           rd == Op("mammoth", p, disk[p])
       IN  IF disk[p] = 0 \/ req[i].doc = "corrupt"
           THEN /\ Log(i, <<rd>>)
                /\ Catch2(i, "analyze")
                /\ UNCHANGED <<disk, text>>
           ELSE CleanUp2(i, DocText, <<rd>>)
    /\ UNCHANGED <<variant, req, clauses>>
    /\ Pure

\* What the classifier subprocess may have written when it closes.
MLOutputs ==
    {"", "null", "{}", "{\"clauses\":[\"c1\"]}", "{\"clauses\":\"x\"}"}

\* await runMLModel(text) settles, mlResult.clauses is read, and the
\* completion call is made.
MLClosed2(i) ==
    /\ At(i, 2, "analyze", "ml")
    /\ \E output \in MLOutputs :
          LET mlResult == RunMLModel(output)
              closed   == [op |-> "close", path |-> 0, got |-> 0,
                           output |-> output]
          IN  IF ClausesThrows(mlResult)
              THEN /\ Log(i, <<closed>>)
                   /\ Catch2(i, "analyze")
                   /\ UNCHANGED clauses
              ELSE /\ clauses' = [clauses EXCEPT
                                    ![i] = ClassifiedClauses(mlResult)]
                   /\ CallGroq(i, <<closed>>)
    /\ UNCHANGED <<variant, req, disk, text>>
    /\ Pure

\* What each handler of build 2 sends once the completion call resolved with
\* a choice.
Body2(i, e, c) ==
    CASE e = "chat"      -> [text |-> Trim(Content(c))]
      [] e = "analyze"   -> [language   |-> AUTO_DETECTED,
                             summary    |-> Trim(Content(c)),
                             ml_clauses |-> clauses[i]]
      [] e = "predict"   -> PredictFieldsV2(c)
      [] e = "timeline"  -> TimelineV2(c)
      [] e = "arguments" -> ArgumentsV2(c)

\* The awaited completion call settles, in any handler of build 2: a
\* completion without a choice throws a TypeError inside the try block.
Groq2(i) ==
    /\ variant = 2
    /\ pc[i] = "groq"
    /\ \E c \in Outcomes(req[i].endpoint) :
          /\ Settled(i, c)
          /\ IF Threw(c) \/ ContentThrows(c) THEN Catch2(i, req[i].endpoint)
             ELSE Respond(i, OK, Body2(i, req[i].endpoint, c))
    /\ UNCHANGED <<variant, req, disk, text, clauses>>
    /\ Pure

-----------------------------------------------------------------------------
(* The server *)

Quiet ==
    /\ req = [i \in Reqs |-> NoReq]
    /\ pc = [i \in Reqs |-> "idle"]
    /\ disk = [p \in Paths |-> 0]
    /\ text = [i \in Reqs |-> <<>>]
    /\ clauses = [i \in Reqs |-> "[]"]
    /\ res = [i \in Reqs |-> <<>>]
    /\ ops = [i \in Reqs |-> <<>>]

Init ==
    /\ variant \in {1, 2}
    /\ Quiet
    /\ completion = NoChoices
    /\ parsed = <<>>

Next ==
    \E i \in Reqs :
        \/ Arrive(i)
        \/ Chat1(i)
        \/ Analyze1(i)
        \/ PdfParsed1(i)
        \/ Mammoth1(i)
        \/ Predict1(i)
        \/ Timeline1(i)
        \/ Arguments1(i)
        \/ Groq1(i)
        \/ Start2(i)
        \/ Analyze2(i)
        \/ PdfParsed2(i)
        \/ Mammoth2(i)
        \/ MLClosed2(i)
        \/ Groq2(i)

Spec == Init /\ [][Next]_vars

-----------------------------------------------------------------------------
(* The parsers alone: a completion is drawn, the handler's parsing step is  *)
(* applied to it, and `parsed` holds the body the handler would send.       *)

MaxReplyLen == 4

SeqsUpTo(S, n) == UNION {[1..k -> S] : k \in 0..n}

TimelineAlphabet == {"w", HYPHEN, ENDASH, EMDASH, COLON, SP, NL}

TimelineExample ==
    <<"2020", HYPHEN, "01", HYPHEN, "15", SP, HYPHEN, SP, "Contract", SP,
      "signed", NL,
      "2020", HYPHEN, "03", HYPHEN, "25", SP, HYPHEN, SP, "Lockdown", SP,
      "begins">>

NoSeparatorExample == <<"Nothing", SP, "happened", SP, "here">>

TimelineReplies ==
    SeqsUpTo(TimelineAlphabet, MaxReplyLen)
    \cup {TimelineExample, NoSeparatorExample}

InitTimeline ==
    /\ variant \in {1, 2}
    /\ Quiet
    /\ completion \in {NoChoices} \cup {Reply(r) : r \in TimelineReplies}
    /\ parsed = <<>>

Frame == UNCHANGED <<variant, req, pc, disk, text, clauses, res, ops,
                     completion>>

ParseTimeline1 ==
    /\ variant = 1
    /\ parsed = <<>>
    /\ parsed' = <<TimelineV1(completion)>>
    /\ Frame

ParseTimeline2 ==
    /\ variant = 2
    /\ parsed = <<>>
    /\ parsed' = <<IF ContentThrows(completion) THEN TimelineCatchV2
                   ELSE TimelineV2(completion)>>
    /\ Frame

NextTimeline == ParseTimeline1 \/ ParseTimeline2

SpecTimeline == InitTimeline /\ [][NextTimeline]_vars

PredictAlphabet ==
    {"Outcome", "outcome", "Reasoning", "Confidence", COLON, HYPHEN, SP, NL,
     "w"}

PredictExample ==
    <<"Outcome", COLON, SP, "Plaintiff", SP, "wins", NL,
      "Reasoning", COLON, SP, "strong", SP, "evidence", NL,
      "Confidence", COLON, SP, "82%">>

PredictReplies == SeqsUpTo(PredictAlphabet, MaxReplyLen) \cup {PredictExample}

InitPredict ==
    /\ variant \in {1, 2}
    /\ Quiet
    /\ completion \in {NoChoices} \cup {Reply(r) : r \in PredictReplies}
    /\ parsed = <<>>

ParsePredict1 ==
    /\ variant = 1
    /\ parsed = <<>>
    /\ parsed' = <<PredictFieldsV1(completion)>>
    /\ Frame

ParsePredict2 ==
    /\ variant = 2
    /\ parsed = <<>>
    /\ parsed' = <<IF ContentThrows(completion) THEN PredictCatchV2
                   ELSE PredictFieldsV2(completion)>>
    /\ Frame

NextPredict == ParsePredict1 \/ ParsePredict2

SpecPredict == InitPredict /\ [][NextPredict]_vars

-----------------------------------------------------------------------------
(* Properties *)

Did(i, name) == \E k \in DOMAIN ops[i] : ops[i][k].op = name

Unlinks(i) == {k \in DOMAIN ops[i] : ops[i][k].op = "unlinkSync"}

FileOps == {"readFileSync", "mammoth", "unlinkSync"}

Extractors == {"readFileSync", "pdfParse", "mammoth"}

Uploaded(i) == req[i].endpoint = "analyze" /\ req[i].file # NoFile

Supported == {<<"pdf">>, <<"docx">>, <<"txt">>}

\* C1: when the handler of /api/analyze-document has answered a request that
\* carried an upload, the stored file is gone and unlinkSync was called
\* exactly once, on every exit path.
C1_FileRemovedExactlyOnce ==
    \A i \in Reqs :
        (Uploaded(i) /\ pc[i] = "done")
            => /\ disk[req[i].path] = 0
               /\ Cardinality(Unlinks(i)) = 1

\* C2: an upload whose extension is not pdf, docx or txt is answered with
\* status 200 and the unsupported-file-type summary, and no extraction
\* library was called.
C2_UnsupportedExtension ==
    \A i \in Reqs :
        (Uploaded(i) /\ Ext(req[i].file) \notin Supported /\ pc[i] = "done")
            => /\ Len(res[i]) = 1
               /\ res[i][1].status = OK
               /\ res[i][1].body.summary = UNSUPPORTED
               /\ \A k \in DOMAIN ops[i] : ops[i][k].op \notin Extractors

\* The body is the fallback-valued record of endpoint e.
IsFallback(e, body) ==
    CASE e = "chat" ->
           /\ "text" \in DOMAIN body
           /\ body.text \in {CHAT_DOWN_V1, CHAT_DOWN_V2}
      [] e = "analyze" ->
           /\ "summary" \in DOMAIN body
           /\ body.summary \in {ANALYZE_DOWN, UNABLE}
      [] e = "predict" ->
           /\ DOMAIN body = {"outcome", "reasoning", "confidence"}
           /\ body.outcome \in {PREDICT_DOWN, SERVER_ERROR}
      [] e = "timeline" ->
           /\ Len(body) = 1
           /\ DOMAIN body[1] = {"date", "event"}
           /\ body[1].date = ERROR_DATE
           /\ body[1].event \in {TIMELINE_ERROR, TIMELINE_FAILED}
      [] e = "arguments" ->
           /\ Len(body) = 1
           /\ DOMAIN body[1] = {"argument"}
           /\ body[1].argument \in {ARGS_DOWN, ARGS_UNREACHABLE}
      [] OTHER -> FALSE

\* C3: in every POST handler, when the completion call throws the handler
\* has emitted exactly one response, the endpoint's fallback-valued record;
\* no handler answers twice, and none ends without an answer.
C3_FallbackOnCompletionFailure ==
    \A i \in Reqs :
        /\ Len(res[i]) <= 1
        /\ pc[i] = "done" => Len(res[i]) = 1
        /\ Did(i, "groq.throw")
              => /\ pc[i] = "done"
                 /\ Len(res[i]) = 1
                 /\ IsFallback(req[i].endpoint, res[i][1].body)

C3_Witness ==
    \E i, j \in Reqs :
        /\ i # j
        /\ Did(i, "groq.throw") /\ req[i].endpoint = "timeline"
        /\ Did(j, "groq.throw") /\ req[j].endpoint = "analyze"
        /\ pc[i] = "done" /\ pc[j] = "done"

AllEmpty(b) ==
    ~Truthy(b.caseType) /\ ~Truthy(b.jurisdiction) /\ ~Truthy(b.summary)

\* C4: /predict-outcome with caseType, jurisdiction and summary all empty is
\* answered with an error record, not with a prediction made from a
\* completion.
C4_EmptyPredictIsRejected ==
    \A i \in Reqs :
        (req[i].endpoint = "predict" /\ AllEmpty(req[i].body)
         /\ pc[i] = "done")
            => /\ Len(res[i]) = 1
               /\ res[i][1].body.outcome
                     \in {MISSING_FIELDS, PREDICT_DOWN, SERVER_ERROR}

AllSeps == {HYPHEN, ENDASH, EMDASH, COLON}

HasSep(l) == \E k \in DOMAIN l : l[k] \in AllSeps

\* The non-empty lines of a completion's content, in order.
LinesOf(c) ==
    IF c.choices = <<>> THEN <<>>
    ELSE SelectSeq(Split(c.choices[1], {NL}), NonBlank)

FirstSep(l) ==
    CHOOSE k \in DOMAIN l :
        l[k] \in AllSeps /\ \A h \in 1..(k - 1) : l[h] \notin AllSeps

\* C5: timeline extraction gives one entry per non-empty line, in order; the
\* date is what precedes the line's first separator and the event is all
\* that follows it; the two-line example gives the dates 2020-01-15 and
\* 2020-03-25.
C5_TimelineFirstSeparator ==
    (parsed # <<>> /\ LinesOf(completion) # <<>>)
        => LET lines   == LinesOf(completion)
               entries == parsed[1]
           IN  /\ Len(entries) = Len(lines)
               /\ \A k \in DOMAIN lines :
                     HasSep(lines[k])
                        => entries[k] =
                             [date  |-> Trim(SubSeq(lines[k], 1,
                                                    FirstSep(lines[k]) - 1)),
                              event |-> Trim(SubSeq(lines[k],
                                                    FirstSep(lines[k]) + 1,
                                                    Len(lines[k])))]
               /\ completion = Reply(TimelineExample)
                     => /\ entries[1].date =
                              <<"2020", HYPHEN, "01", HYPHEN, "15">>
                        /\ entries[2].date =
                              <<"2020", HYPHEN, "03", HYPHEN, "25">>

\* C6: a non-empty line without a separator gives the entry whose date is
\* the em dash and whose event is the whole line.
C6_NoSeparatorLine ==
    (parsed # <<>> /\ LinesOf(completion) # <<>>)
        => \A k \in DOMAIN LinesOf(completion) :
              LET l == LinesOf(completion)[k]
              IN  ~HasSep(l)
                     => \E h \in DOMAIN parsed[1] :
                           \/ parsed[1][h] = [date |-> <<EMDASH>>, event |-> l]
                           \/ parsed[1][h] = [date |-> <<EMDASH>>,
                                              event |-> Trim(l)]

\* The reply holds none of the three labels, in any case, before a colon or
\* a hyphen; a completion without a choice or with empty content counts.
NoLabels(c) ==
    \/ c.choices = <<>>
    \/ \A label \in {"Outcome", "Reasoning", "Confidence"} :
          FirstLabel(c.choices[1], 1, label, TRUE, TRUE) = 0

\* C7: a reply without any of the labels gives exactly the three fixed
\* fallback strings.
C7_NoLabelsGiveFallbacks ==
    (parsed # <<>> /\ NoLabels(completion))
        => parsed[1] = [outcome    |-> NO_OUTCOME,
                        reasoning  |-> NO_REASONING,
                        confidence |-> NO_CONFIDENCE]

\* The subprocess outputs that are a well-formed clause result.
WellFormed == {"{\"clauses\":[]}", "{\"clauses\":[\"c1\"]}"}

\* C8: when the subprocess closed with an output that is not a well-formed
\* clause result, the handler went on to the completion call with an empty
\* clause list.
C8_ClassifierFailsClosed ==
    \A i \in Reqs :
        \A k \in DOMAIN ops[i] :
            (ops[i][k].op = "close" /\ ops[i][k].output \notin WellFormed)
                => /\ clauses[i] = "[]"
                   /\ Did(i, "groq.create")

\* C9: in /api/analyze-document the completion call is started only after
\* the upload has been removed from disk.
C9_FileDeletedBeforeCompletion ==
    \A i \in Reqs :
        \A k \in DOMAIN ops[i] :
            (Uploaded(i) /\ ops[i][k].op = "groq.create")
                => /\ disk[req[i].path] = 0
                   /\ \E h \in 1..(k - 1) :
                         /\ ops[i][h].op = "unlinkSync"
                         /\ ops[i][h].got # 0

C9_Witness ==
    \E i \in Reqs :
        /\ Uploaded(i)
        /\ Did(i, "groq.throw")
        /\ pc[i] = "done"
        /\ Cardinality(Unlinks(i)) = 1
        /\ disk[req[i].path] = 0

\* C10: whatever the interleaving, every file a handler reads or deletes is
\* at its own request's path and holds its own request's upload, no read or
\* deletion finds its file missing, and a stored file belongs to the request
\* whose path it is at.
C10_UploadsAreIsolated ==
    /\ \A i \in Reqs :
          \A k \in DOMAIN ops[i] :
              ops[i][k].op \in FileOps
                 => /\ ops[i][k].path = req[i].path
                    /\ ops[i][k].got = i
    /\ \A p \in Paths : disk[p] # 0 => req[disk[p]].path = p

C10_Witness ==
    \E i, j \in Reqs :
        /\ i # j
        /\ Uploaded(i) /\ Uploaded(j)
        /\ pc[i] = "done" /\ Cardinality(Unlinks(i)) = 1
        /\ pc[j] \in {"pdfParse", "mammoth"}
        /\ disk[req[j].path] = j

====
